---- MODULE Spec2Model ----
(***************************************************************************)
(* Model of the tsm hierarchical state machine runtime (src/tsm.h):        *)
(* StateMachine, SeparateThreadExecutionPolicy and OrthogonalHSM, driven   *)
(* by an application thread (onEntry / push / onExit) and the dispatch     *)
(* thread that runs StateMachine::step.                                    *)
(***************************************************************************)
EXTENDS Naturals, Sequences, FiniteSets, TLC

None == "None"

\* ----------------------------------------------------------------------
\* Bounds of the model
\* ----------------------------------------------------------------------
\* number of events the producer pushes in one run
MaxPush == 3
\* number of nested execute() frames after which the thread's stack is exhausted
StackLimit == 6
\* number of times the application calls onExit on the root
MaxExitCalls == 2

Events == {"e1", "e2", "e3"}

\* ----------------------------------------------------------------------
\* Machine configurations built by the application before start.
\* A transition record is the argument list of StateMachine::add.
\* ----------------------------------------------------------------------
T(from, ev, to, action, guard) ==
    [from |-> from, ev |-> ev, to |-> to, action |-> action, guard |-> guard]

ConfigNames ==
    {"flat", "startIsStop", "dupAdd", "nested", "nestedStart", "ortho",
     "orthoShared"}

AllMachines == {"M", "P", "S", "O", "H1", "H2"}

AllLeaves == {"A", "B", "C", "D", "S1", "S2", "X1", "X2", "X3", "Y1", "Y2"}

\* the machines a configuration instantiates
Machines(c) ==
    CASE c \in {"flat", "startIsStop", "dupAdd"} -> {"M"}
      [] c \in {"nested", "nestedStart"} -> {"P", "S"}
      [] c \in {"ortho", "orthoShared"} -> {"O", "H1", "H2"}

\* the machine on which the application calls onEntry / onExit
Root(c) ==
    CASE c \in {"flat", "startIsStop", "dupAdd"} -> "M"
      [] c \in {"nested", "nestedStart"} -> "P"
      [] c \in {"ortho", "orthoShared"} -> "O"

IsOrtho(m) == m = "O"

hsm1_(m) == "H1"

hsm2_(m) == "H2"

\* StateMachine::parent_ as passed to the constructor / set by OrthogonalHSM
parent_(m) ==
    CASE m = "S" -> "P"
      [] m \in {"H1", "H2"} -> "O"
      [] OTHER -> None

\* State::getParent of a plain State: a leaf is constructed from its name
\* alone (State(name)) and carries no parent link
State_getParent(s) == None

\* virtual getParent: StateMachine overrides it to return parent_
getParent(s) == IF s \in AllMachines THEN parent_(s) ELSE State_getParent(s)

startState_(c, m) ==
    CASE m = "M" -> "A"
      [] m = "P" -> IF c = "nestedStart" THEN "S" ELSE "A"
      [] m = "S" -> "S1"
      [] m = "O" -> hsm1_(m)
      [] m = "H1" -> "X1"
      [] m = "H2" -> "Y1"

stopState_(c, m) ==
    CASE m = "M" -> IF c = "startIsStop" THEN "A" ELSE "C"
      [] m = "P" -> "D"
      [] m = "S" -> "S2"
      [] m = "O" -> None
      [] m = "H1" -> "X3"
      [] m = "H2" -> "Y2"

\* the add() calls the application makes on machine m, in order
Adds(c, m) ==
    CASE m = "M" /\ c = "flat" ->
             << T("A", "e1", "B", FALSE, FALSE),
                T("B", "e1", "B", TRUE, FALSE),
                T("B", "e2", "C", TRUE, TRUE),
                T("B", "e3", "A", FALSE, FALSE) >>
      [] m = "M" /\ c = "startIsStop" ->
             << T("A", "e1", "B", TRUE, TRUE),
                T("B", "e2", "A", FALSE, FALSE) >>
      [] m = "M" /\ c = "dupAdd" ->
             << T("A", "e1", "B", FALSE, FALSE),
                T("A", "e1", "C", TRUE, TRUE),
                T("B", "e2", "A", FALSE, FALSE) >>
      [] m = "P" ->
             << T("A", "e1", "S", FALSE, FALSE),
                T("S", "e3", "A", TRUE, TRUE),
                T("A", "e3", "D", FALSE, FALSE) >>
      [] m = "S" ->
             << T("S1", "e2", "S2", FALSE, FALSE) >>
      [] m = "O" -> << >>
      [] m = "H1" /\ c = "ortho" ->
             << T("X1", "e1", "X2", FALSE, FALSE),
                T("X2", "e3", "X3", FALSE, FALSE) >>
      [] m = "H1" /\ c = "orthoShared" ->
             << T("X1", "e1", "X2", FALSE, FALSE),
                T("X2", "e2", "X3", FALSE, FALSE) >>
      [] m = "H2" ->
             << T("Y1", "e2", "Y2", FALSE, FALSE) >>

\* ----------------------------------------------------------------------
\* Transition table
\* ----------------------------------------------------------------------
\* StateMachine::addTransition: unordered_map::insert keeps an existing key
\* an insertion that replaces the entry already stored under the key
addTransition_overwrite(table, t) ==
    {u \in table : ~(u.from = t.from /\ u.ev = t.ev)} \cup {t}

addTransition(table, t) ==
    IF \E u \in table : u.from = t.from /\ u.ev = t.ev
    THEN table
    ELSE table \cup {t}

RECURSIVE add(_)
\* the table after the sequence of add() calls
add(adds) ==
    IF adds = << >>
    THEN {}
    ELSE addTransition(add(SubSeq(adds, 1, Len(adds) - 1)), adds[Len(adds)])

table_(c, m) == add(Adds(c, m))

\* StateMachine::add also records the event in eventSet_
eventSet_(c, m) == {Adds(c, m)[i].ev : i \in 1..Len(Adds(c, m))}

getEvents(c, m) == eventSet_(c, m)

\* the null shared_ptr<Transition>
nullptr == T(None, None, None, FALSE, FALSE)

\* StateTransitionTable::next
next(table, fromState, onEvent) ==
    IF \E t \in table : t.from = fromState /\ t.ev = onEvent
    THEN CHOOSE t \in table : t.from = fromState /\ t.ev = onEvent
    ELSE nullptr

\* ----------------------------------------------------------------------
\* State of the running program
\* ----------------------------------------------------------------------
VARIABLES
    cfg,            \* the configuration the application built
    currentState_,  \* StateMachine::currentState_ of every machine
    interrupt_,     \* StateMachine::interrupt_ of every machine
    queue,          \* EventQueue: the events not yet delivered
    qStopped,       \* EventQueue: stop() has been called
    joinable,       \* smThread_.joinable()
    proc,           \* "ok", or how the process died
    dpc,            \* dispatch thread: position in step / execute
    dEv,            \* dispatch thread: nextEvent
    dM,             \* dispatch thread: the machine whose method runs (this)
    dT,             \* dispatch thread: the transition found by table_.next
    dOps,           \* dispatch thread: statements of onExit still to run
    calls,          \* dispatch thread: execute() frames entered for dEv
    dGuard,         \* dispatch thread: outcome of the guard for dEv
    dPre,           \* currentState_ and log length when the transition was found
    mpc,            \* application thread: position
    mOps,           \* application thread: statements of onEntry/onExit still to run
    exitCalls,      \* number of onExit calls the application has made
    pushed,         \* history: events pushed, in order
    executed,       \* history: events handed to execute by step, in order
    hooks,          \* history: onEntry / onExit / action / guard invocations
    earlyPush,      \* history: an event was pushed before onEntry returned
    extStopped      \* history: the application stopped the queue itself

machineVars == <<currentState_, interrupt_>>

queueVars == <<queue, qStopped>>

dVars == <<dpc, dEv, dM, dT, dOps, calls, dGuard, dPre>>

mVars == <<mpc, mOps, exitCalls>>

histVars == <<pushed, executed, hooks, earlyPush, extStopped>>

vars == <<cfg, machineVars, queueVars, joinable, proc, dVars, mVars, histVars>>

NullDeref == "NullDeref"

\* ----------------------------------------------------------------------
\* Accessors
\* ----------------------------------------------------------------------
getStartState(c, m) == startState_(c, m)

getStopState(c, m) == stopState_(c, m)

\* State::getCurrentState of a leaf returns the leaf itself
State_getCurrentState(s) == s

\* virtual getCurrentState: StateMachine returns currentState_,
\* OrthogonalHSM returns hsm1_
getCurrentState(cs, s) ==
    IF s \notin AllMachines THEN State_getCurrentState(s)
    ELSE IF IsOrtho(s) THEN hsm1_(s)
    ELSE cs[s]

RECURSIVE descend(_, _, _)
\* the loop of StateMachine::dispatch; kid->getParent() on a null kid is a
\* null dereference
descend(cs, parent, kid) ==
    IF kid = None THEN NullDeref
    ELSE IF getParent(kid) # None
         THEN descend(cs, kid, getCurrentState(cs, kid))
         ELSE parent

\* StateMachine::dispatch
dispatch(cs, state) == descend(cs, state, getCurrentState(cs, state))

\* ----------------------------------------------------------------------
\* onEntry / onExit as the sequence of their statements
\* ----------------------------------------------------------------------
\* StateMachine::startHSM
startHSM(m) == IF parent_(m) = None THEN << <<"start", m>> >> ELSE << >>

\* StateMachine::stopHSM
stopHSM(m) ==
    IF parent_(m) = None THEN << <<"queueStop", m>>, <<"join", m>> >> ELSE << >>

\* StateMachine::onEntry
StateMachine_onEntry(m) == startHSM(m) \o << <<"setCurrent", m>> >>

\* StateMachine::onExit
StateMachine_onExit(m) ==
    << <<"clear", m>>, <<"interrupt", m>> >> \o stopHSM(m)

\* virtual onEntry (OrthogonalHSM::onEntry for an orthogonal machine)
onEntry(m) ==
    IF IsOrtho(m)
    THEN StateMachine_onEntry(hsm1_(m)) \o StateMachine_onEntry(hsm2_(m))
             \o StateMachine_onEntry(m)
    ELSE StateMachine_onEntry(m)

\* virtual onExit (OrthogonalHSM::onExit for an orthogonal machine)
onExit(m) ==
    IF IsOrtho(m)
    THEN StateMachine_onExit(hsm1_(m)) \o StateMachine_onExit(hsm2_(m))
             \o StateMachine_onExit(m)
    ELSE StateMachine_onExit(m)

\* the hook invocations a call of onEntry / onExit on s makes, in call order
hookCalls(kind, s) ==
    IF s \in AllMachines /\ IsOrtho(s)
    THEN << <<kind, s>>, <<kind, hsm1_(s)>>, <<kind, hsm2_(s)>> >>
    ELSE << <<kind, s>> >>

\* effect of one statement on currentState_
opCurrent(c, op, cs) ==
    CASE op[1] = "setCurrent" -> [cs EXCEPT ![op[2]] = getStartState(c, op[2])]
      [] op[1] = "clear" -> [cs EXCEPT ![op[2]] = None]
      [] OTHER -> cs

\* effect of one statement on interrupt_
opInterrupt(op, intr) ==
    IF op[1] = "interrupt" THEN [intr EXCEPT ![op[2]] = TRUE] ELSE intr

RECURSIVE runCurrent(_, _, _)
\* currentState_ after the statements ops, run without interruption
runCurrent(c, ops, cs) ==
    IF ops = << >> THEN cs
    ELSE runCurrent(c, Tail(ops), opCurrent(c, Head(ops), cs))

RECURSIVE runInterrupt(_, _)
runInterrupt(ops, intr) ==
    IF ops = << >> THEN intr
    ELSE runInterrupt(Tail(ops), opInterrupt(Head(ops), intr))

\* the statements a state's onEntry hook runs: none for a leaf
stateOnEntry(s) == IF s \in AllMachines THEN onEntry(s) ELSE << >>

\* the statements a state's onExit hook runs: none for a leaf
stateOnExit(s) == IF s \in AllMachines THEN onExit(s) ELSE << >>

\* Transition::doTransition: the hooks and action it invokes, in order
doTransitionCalls(m, t) ==
    IF t.from = t.to
    THEN IF t.action THEN << <<"action", m>> >> ELSE << >>
    ELSE hookCalls("onExit", t.from)
             \o (IF t.action THEN << <<"action", m>> >> ELSE << >>)
             \o hookCalls("onEntry", t.to)

\* Transition::doTransition: the statements its hooks run, in order
doTransitionOps(t) ==
    IF t.from = t.to THEN << >> ELSE stateOnExit(t.from) \o stateOnEntry(t.to)

\* ----------------------------------------------------------------------
\* Initial state: the machines are constructed, their tables populated
\* ----------------------------------------------------------------------
Init ==
    /\ cfg \in ConfigNames
    /\ currentState_ = [m \in AllMachines |-> None]
    /\ interrupt_ = [m \in AllMachines |-> FALSE]
    /\ queue = << >>
    /\ qStopped = FALSE
    /\ joinable = FALSE
    /\ proc = "ok"
    /\ dpc = "idle"
    /\ dEv = None
    /\ dM = None
    /\ dT = nullptr
    /\ dOps = << >>
    /\ calls = 0
    /\ dGuard = "none"
    /\ dPre = [cur |-> None, n |-> 0]
    /\ mpc = "created"
    /\ mOps = << >>
    /\ exitCalls = 0
    /\ pushed = << >>
    /\ executed = << >>
    /\ hooks = << >>
    /\ earlyPush = FALSE
    /\ extStopped = FALSE

\* ----------------------------------------------------------------------
\* Producer and application thread
\* ----------------------------------------------------------------------
\* EventQueue::push from a producer thread
Push(e) ==
    /\ proc = "ok"
    /\ Len(pushed) < MaxPush
    /\ queue' = Append(queue, e)
    /\ pushed' = Append(pushed, e)
    /\ earlyPush' = (earlyPush \/ mpc \in {"created", "onEntry"})
    /\ UNCHANGED <<cfg, machineVars, qStopped, joinable, proc, dVars, mVars,
                   executed, hooks, extStopped>>

\* the application calls eventQueue.stop() itself
QueueStop ==
    /\ proc = "ok"
    /\ mpc = "running"
    /\ ~qStopped
    /\ qStopped' = TRUE
    /\ extStopped' = TRUE
    /\ UNCHANGED <<cfg, machineVars, queue, joinable, proc, dVars, mVars,
                   pushed, executed, hooks, earlyPush>>

\* the application calls root.onEntry()
CallOnEntry ==
    /\ proc = "ok"
    /\ mpc = "created"
    /\ mpc' = "onEntry"
    /\ mOps' = onEntry(Root(cfg))
    /\ hooks' = hooks \o hookCalls("onEntry", Root(cfg))
    /\ UNCHANGED <<cfg, machineVars, queueVars, joinable, proc, dVars,
                   exitCalls, pushed, executed, earlyPush, extStopped>>

\* the application calls root.onExit()
CallOnExit ==
    /\ proc = "ok"
    /\ mpc \in {"running", "exited"}
    /\ exitCalls < MaxExitCalls
    /\ mpc' = "onExit"
    /\ mOps' = onExit(Root(cfg))
    /\ exitCalls' = exitCalls + 1
    /\ hooks' = hooks \o hookCalls("onExit", Root(cfg))
    /\ UNCHANGED <<cfg, machineVars, queueVars, joinable, proc, dVars,
                   pushed, executed, earlyPush, extStopped>>

\* the application thread's position after the statement at the head of mOps
mReturn == IF Tail(mOps) # << >> THEN mpc
           ELSE IF mpc = "onEntry" THEN "running" ELSE "exited"

\* SeparateThreadExecutionPolicy::start, from startHSM on the application thread
MStart ==
    /\ proc = "ok"
    /\ mOps # << >> /\ Head(mOps)[1] = "start"
    /\ joinable' = TRUE
    /\ dpc' = "loop"
    /\ mOps' = Tail(mOps)
    /\ mpc' = mReturn
    /\ UNCHANGED <<cfg, machineVars, queueVars, proc, dEv, dM, dT, dOps, calls,
                   dGuard, dPre, exitCalls, histVars>>

\* a write of currentState_ or interrupt_ by onEntry / onExit on the
\* application thread
MAssign ==
    /\ proc = "ok"
    /\ mOps # << >> /\ Head(mOps)[1] \in {"setCurrent", "clear", "interrupt"}
    /\ currentState_' = opCurrent(cfg, Head(mOps), currentState_)
    /\ interrupt_' = opInterrupt(Head(mOps), interrupt_)
    /\ mOps' = Tail(mOps)
    /\ mpc' = mReturn
    /\ UNCHANGED <<cfg, queueVars, joinable, proc, dVars, exitCalls, histVars>>

\* eventQueue_.stop() in stopHSM on the application thread
MQueueStop ==
    /\ proc = "ok"
    /\ mOps # << >> /\ Head(mOps)[1] = "queueStop"
    /\ qStopped' = TRUE
    /\ mOps' = Tail(mOps)
    /\ mpc' = mReturn
    /\ UNCHANGED <<cfg, machineVars, queue, joinable, proc, dVars, exitCalls,
                   histVars>>

\* SeparateThreadExecutionPolicy::stop on the application thread:
\* smThread_.join() returns once step has returned
MJoin ==
    /\ proc = "ok"
    /\ mOps # << >> /\ Head(mOps)[1] = "join"
    /\ joinable
    /\ dpc = "done"
    /\ joinable' = FALSE
    /\ mOps' = Tail(mOps)
    /\ mpc' = mReturn
    /\ UNCHANGED <<cfg, machineVars, queueVars, proc, dVars, exitCalls, histVars>>

\* smThread_.join() on a thread that is not joinable throws std::system_error
\* out of onExit to the caller
MJoinThrows ==
    /\ proc = "ok"
    /\ mOps # << >> /\ Head(mOps)[1] = "join"
    /\ ~joinable
    /\ mOps' = << >>
    /\ mpc' = "threw"
    /\ UNCHANGED <<cfg, machineVars, queueVars, joinable, proc, dVars,
                   exitCalls, histVars>>

\* ----------------------------------------------------------------------
\* Dispatch thread: StateMachine::step and what it calls
\* ----------------------------------------------------------------------
\* execute has returned to the loop of step
dReturn ==
    /\ dpc' = "loop"
    /\ dEv' = None
    /\ dM' = None
    /\ dT' = nullptr
    /\ dOps' = << >>
    /\ calls' = 0
    /\ dGuard' = "none"
    /\ dPre' = [cur |-> None, n |-> 0]

\* while (!interrupt_)
DWhile ==
    /\ proc = "ok"
    /\ dpc = "loop"
    /\ dpc' = IF interrupt_[Root(cfg)] THEN "done" ELSE "nextEvent"
    /\ UNCHANGED <<cfg, machineVars, queueVars, joinable, proc, dEv, dM, dT,
                   dOps, calls, dGuard, dPre, mVars, histVars>>

\* EventQueue::nextEvent: blocks while the queue is empty and not stopped,
\* throws EventQueueInterruptedException once it is stopped
DNextEvent ==
    /\ proc = "ok"
    /\ dpc = "nextEvent"
    /\ \/ /\ qStopped
          /\ dpc' = "catch"
          /\ UNCHANGED <<queue, dEv>>
       \/ /\ ~qStopped
          /\ queue # << >>
          /\ dEv' = Head(queue)
          /\ queue' = Tail(queue)
          /\ dpc' = "dispatch"
    /\ UNCHANGED <<cfg, machineVars, qStopped, joinable, proc, dM, dT, dOps,
                   calls, dGuard, dPre, mVars, histVars>>

\* the catch block of step without the rethrow: every interruption is swallowed
DCatch_swallow ==
    /\ dpc = "catch"
    /\ proc = "ok"
    /\ dpc' = "done"
    /\ proc' = proc
    /\ UNCHANGED <<cfg, machineVars, queueVars, joinable, dEv, dM, dT, dOps,
                   calls, dGuard, dPre, mVars, histVars>>

\* catch (EventQueueInterruptedException const& e): rethrown when interrupt_
\* is not set, and then nothing catches it on this thread
DCatch ==
    /\ dpc = "catch"
    /\ proc = "ok"
    /\ IF interrupt_[Root(cfg)]
       THEN dpc' = "done" /\ proc' = proc
       ELSE dpc' = dpc /\ proc' = "terminate"
    /\ UNCHANGED <<cfg, machineVars, queueVars, joinable, dEv, dM, dT, dOps,
                   calls, dGuard, dPre, mVars, histVars>>

\* dispatch(this)->execute(nextEvent): the descent, then the call
DDispatch ==
    /\ proc = "ok"
    /\ dpc = "dispatch"
    /\ LET target == dispatch(currentState_, Root(cfg)) IN
       IF target = NullDeref
       THEN /\ proc' = "segv"
            /\ UNCHANGED <<dpc, dM, calls, executed>>
       ELSE /\ dM' = target
            /\ dpc' = "execute"
            /\ calls' = 1
            /\ executed' = Append(executed, dEv)
            /\ proc' = proc
    /\ UNCHANGED <<cfg, machineVars, queueVars, joinable, dEv, dT, dOps,
                   dGuard, dPre, mVars, pushed, hooks, earlyPush, extStopped>>

\* a nested call target->execute(nextEvent); the recursion ends the thread
\* (stack exhausted) or never returns once StackLimit frames are open
dCall(target) ==
    IF calls < StackLimit
    THEN /\ dM' = target
         /\ calls' = calls + 1
         /\ dpc' = dpc
         /\ proc' = proc
    ELSE /\ \/ proc' = "overflow" /\ dpc' = dpc
            \/ proc' = proc /\ dpc' = "hung"
         /\ UNCHANGED <<dM, calls>>

\* StateMachine::execute up to the table lookup and the no-transition branch
DExecute ==
    /\ proc = "ok"
    /\ dpc = "execute"
    /\ ~IsOrtho(dM)
    /\ IF currentState_[dM] = None
       THEN \* currentState_->name
            /\ proc' = "segv"
            /\ UNCHANGED dVars
       ELSE LET t == next(table_(cfg, dM), currentState_[dM], dEv) IN
            IF t = nullptr
            THEN IF parent_(dM) # None
                 THEN /\ dCall(parent_(dM))
                      /\ UNCHANGED <<dEv, dT, dOps, dGuard, dPre>>
                 ELSE dReturn /\ proc' = proc
            ELSE /\ dT' = t
                 /\ dPre' = [cur |-> currentState_[dM], n |-> Len(hooks)]
                 /\ dpc' = "guard"
                 /\ UNCHANGED <<proc, dEv, dM, dOps, calls, dGuard>>
    /\ UNCHANGED <<cfg, machineVars, queueVars, joinable, mVars, histVars>>

\* OrthogonalHSM::execute with the two membership tests swapped
orthoTarget_hsm2First(c, m, nextEvent) ==
    IF nextEvent \in getEvents(c, hsm2_(m)) THEN hsm2_(m)
    ELSE IF nextEvent \in getEvents(c, hsm1_(m)) THEN hsm1_(m)
    ELSE parent_(m)

\* OrthogonalHSM::execute: the state whose execute receives nextEvent
\* (None: no parent, the event is logged as unhandled)
orthoTarget(c, m, nextEvent) ==
    IF nextEvent \in getEvents(c, hsm1_(m)) THEN hsm1_(m)
    ELSE IF nextEvent \in getEvents(c, hsm2_(m)) THEN hsm2_(m)
    ELSE parent_(m)

\* OrthogonalHSM::execute
DExecuteOrtho ==
    /\ proc = "ok"
    /\ dpc = "execute"
    /\ IsOrtho(dM)
    /\ IF orthoTarget(cfg, dM, dEv) # None
       THEN /\ dCall(orthoTarget(cfg, dM, dEv))
            /\ UNCHANGED <<dEv, dT, dOps, dGuard, dPre>>
       ELSE dReturn /\ proc' = proc
    /\ UNCHANGED <<cfg, machineVars, queueVars, joinable, mVars, histVars>>

\* the guard is evaluated but its result is ignored
DGuard_ignored ==
    /\ proc = "ok"
    /\ dpc = "guard"
    /\ IF dT.guard
       THEN \E result \in BOOLEAN :
                /\ dGuard' = IF result THEN "true" ELSE "false"
                /\ hooks' = Append(hooks, <<"guard", dM>>)
       ELSE /\ dGuard' = "absent"
            /\ hooks' = hooks
    /\ dpc' = "doTransition"
    /\ UNCHANGED <<cfg, machineVars, queueVars, joinable, proc, dEv, dM, dT,
                   dOps, calls, dPre, mVars, pushed, executed, earlyPush,
                   extStopped>>

\* evaluation of the guard, if the transition has one
DGuard ==
    /\ proc = "ok"
    /\ dpc = "guard"
    /\ IF dT.guard
       THEN \E result \in BOOLEAN :
                /\ dGuard' = IF result THEN "true" ELSE "false"
                /\ dpc' = IF result THEN "doTransition" ELSE "stopCheck"
                /\ hooks' = Append(hooks, <<"guard", dM>>)
       ELSE /\ dGuard' = "absent"
            /\ dpc' = "doTransition"
            /\ hooks' = hooks
    /\ UNCHANGED <<cfg, machineVars, queueVars, joinable, proc, dEv, dM, dT,
                   dOps, calls, dPre, mVars, pushed, executed, earlyPush,
                   extStopped>>

\* t->doTransition(this)
DDoTransition ==
    /\ proc = "ok"
    /\ dpc = "doTransition"
    /\ currentState_' = runCurrent(cfg, doTransitionOps(dT), currentState_)
    /\ interrupt_' = runInterrupt(doTransitionOps(dT), interrupt_)
    /\ hooks' = hooks \o doTransitionCalls(dM, dT)
    /\ dpc' = "setCurrent"
    /\ UNCHANGED <<cfg, queueVars, joinable, proc, dEv, dM, dT, dOps, calls,
                   dGuard, dPre, mVars, pushed, executed, earlyPush,
                   extStopped>>

\* currentState_ = t->toState
DSetCurrent ==
    /\ proc = "ok"
    /\ dpc = "setCurrent"
    /\ currentState_' = [currentState_ EXCEPT ![dM] = dT.to]
    /\ dpc' = "stopCheck"
    /\ UNCHANGED <<cfg, interrupt_, queueVars, joinable, proc, dEv, dM, dT,
                   dOps, calls, dGuard, dPre, mVars, histVars>>

\* if (currentState_ == getStopState()) onExit();
DStopCheck ==
    /\ proc = "ok"
    /\ dpc = "stopCheck"
    /\ IF currentState_[dM] = getStopState(cfg, dM)
       THEN /\ dpc' = "onExit"
            /\ dOps' = onExit(dM)
            /\ hooks' = hooks \o hookCalls("onExit", dM)
            /\ UNCHANGED <<dEv, dM, dT, calls, dGuard, dPre>>
       ELSE dReturn /\ hooks' = hooks
    /\ UNCHANGED <<cfg, machineVars, queueVars, joinable, proc, mVars, pushed,
                   executed, earlyPush, extStopped>>

\* the dispatch thread after the statement at the head of dOps
dAdvance ==
    IF Tail(dOps) = << >>
    THEN dReturn
    ELSE dOps' = Tail(dOps) /\ UNCHANGED <<dpc, dEv, dM, dT, calls, dGuard, dPre>>

\* a write of currentState_ or interrupt_ by onExit on the dispatch thread
DAssign ==
    /\ proc = "ok"
    /\ dpc = "onExit"
    /\ dOps # << >> /\ Head(dOps)[1] \in {"setCurrent", "clear", "interrupt"}
    /\ currentState_' = opCurrent(cfg, Head(dOps), currentState_)
    /\ interrupt_' = opInterrupt(Head(dOps), interrupt_)
    /\ dAdvance
    /\ UNCHANGED <<cfg, queueVars, joinable, proc, mVars, histVars>>

\* eventQueue_.stop() in stopHSM on the dispatch thread
DQueueStop ==
    /\ proc = "ok"
    /\ dpc = "onExit"
    /\ dOps # << >> /\ Head(dOps)[1] = "queueStop"
    /\ qStopped' = TRUE
    /\ dAdvance
    /\ UNCHANGED <<cfg, machineVars, queue, joinable, proc, mVars, histVars>>

\* SeparateThreadExecutionPolicy::stop on the dispatch thread itself:
\* smThread_.join() on the calling thread throws std::system_error
\* (resource_deadlock_would_occur), which nothing on this thread catches
DJoinSelf ==
    /\ proc = "ok"
    /\ dpc = "onExit"
    /\ dOps # << >> /\ Head(dOps)[1] = "join"
    /\ proc' = "terminate"
    /\ UNCHANGED <<cfg, machineVars, queueVars, joinable, dVars, mVars,
                   histVars>>

\* ----------------------------------------------------------------------
\* Specification
\* ----------------------------------------------------------------------
Next ==
    \/ \E e \in Events : Push(e)
    \/ QueueStop
    \/ CallOnEntry
    \/ CallOnExit
    \/ MStart
    \/ MAssign
    \/ MQueueStop
    \/ MJoin
    \/ MJoinThrows
    \/ DWhile
    \/ DNextEvent
    \/ DCatch
    \/ DDispatch
    \/ DExecute
    \/ DExecuteOrtho
    \/ DGuard
    \/ DDoTransition
    \/ DSetCurrent
    \/ DStopCheck
    \/ DAssign
    \/ DQueueStop
    \/ DJoinSelf

Spec == Init /\ [][Next]_vars

\* ----------------------------------------------------------------------
\* Properties
\* ----------------------------------------------------------------------
\* the application started the root before any event was pushed and never
\* stopped the queue behind the machine's back
ProperUse == ~earlyPush /\ ~extStopped

\* the dispatch thread is running the root's onExit, called from the
\* stopState check of execute after a transition into stopState
InternalShutdown ==
    /\ dpc = "onExit"
    /\ dM = Root(cfg)
    /\ dGuard \in {"true", "absent"}
    /\ dT.to = getStopState(cfg, dM)

\* C1: graceful internal shutdown. When the dispatch thread reaches stopState
\* on the root and runs the root's onExit itself (no external shutdown
\* involved), that thread does not end in an error: the process stays alive
\* through the queue stop and the policy stop/join of onExit.
C1_GracefulInternalShutdown ==
    (InternalShutdown /\ exitCalls = 0 /\ ProperUse) => proc = "ok"

\* C2: idempotent shutdown. Once the application's second onExit call on the
\* root has ended, it has ended by returning normally (it did not fail in the
\* policy's join).
C2_IdempotentShutdown ==
    (exitCalls = 2 /\ mOps = << >>) => mpc = "exited"

\* the application's first onExit call on a properly started root without
\* nested machines is in progress or has returned, and the dispatch thread
\* has not reached stopState by itself
ExternalShutdown ==
    /\ cfg = "flat"
    /\ exitCalls = 1
    /\ ProperUse
    /\ ~InternalShutdown

\* C3: external shutdown. From the moment another thread calls onExit on the
\* started root, wherever the dispatch thread is in its loop, the dispatch
\* thread does not fail, the call does not fail, and when the call has
\* returned the dispatch thread has left step.
C3_ExternalShutdown ==
    ExternalShutdown =>
        /\ proc = "ok"
        /\ mpc # "threw"
        /\ (mpc = "exited" => dpc = "done")

\* C4: bubble-up terminates. Dispatching one event enters execute at most once
\* per machine of the hierarchy, and the chain of execute calls returns.
C4_BubbleUpTerminates ==
    /\ calls <= Cardinality(Machines(cfg))
    /\ proc # "overflow"
    /\ dpc # "hung"

\* the root has been entered, has not begun to exit, and the dispatch thread
\* is between two events
Observable ==
    /\ mpc = "running"
    /\ exitCalls = 0
    /\ proc = "ok"
    /\ dpc \in {"loop", "nextEvent"}
    /\ ~interrupt_[Root(cfg)]

\* C5: at-most-one active leaf. At every observation point between the root's
\* entry and its exit, the descent along currentState from the root passes
\* only machines with a non-None currentState and ends in a leaf.
C5_ActiveLeaf ==
    Observable =>
        /\ dispatch(currentState_, Root(cfg)) # NullDeref
        /\ currentState_[dispatch(currentState_, Root(cfg))] \in AllLeaves

\* number of invocations of hook kind on state s among the first k log entries
Count(kind, s, k) == Cardinality({i \in 1..k : hooks[i] = <<kind, s>>})

\* C6: exit pairs with entry. For every state, onEntry and onExit strictly
\* alternate starting with onEntry, and once the root has exited every
\* onEntry has had its onExit.
C6_ExitPairsWithEntry ==
    (exitCalls <= 1 /\ ProperUse) =>
        \A s \in AllLeaves \cup AllMachines :
            /\ \A k \in 0..Len(hooks) :
                   /\ Count("onExit", s, k) <= Count("onEntry", s, k)
                   /\ Count("onEntry", s, k) <= Count("onExit", s, k) + 1
            /\ (mpc = "exited" /\ proc = "ok") =>
                   Count("onEntry", s, Len(hooks)) = Count("onExit", s, Len(hooks))

\* C7: guard rejection is side-effect free. After the guard of the transition
\* found for (currentState, event) has returned false, and until execute
\* returns, the machine's currentState is what it was at the lookup, the
\* guard is the only callback that has run, and no other machine's execute
\* has been entered for the event.
C7_GuardRejection ==
    (dGuard = "false" /\ exitCalls = 0 /\ ProperUse) =>
        /\ currentState_[dM] = dPre.cur
        /\ hooks = SubSeq(hooks, 1, dPre.n) \o << <<"guard", dM>> >>
        /\ dT.from = dPre.cur
        /\ dpc = "stopCheck"

\* C8: exited is terminal. Once the application's onExit on the root has
\* returned, the root's currentState is None and its interrupt flag is set.
C8_ExitedIsTerminal ==
    (mpc = "exited" /\ proc = "ok" /\ ProperUse) =>
        /\ currentState_[Root(cfg)] = None
        /\ interrupt_[Root(cfg)]

\* the application thread's next statement writes m's currentState_
MainWrites(m) ==
    /\ proc = "ok"
    /\ mOps # << >>
    /\ Head(mOps) \in {<<"setCurrent", m>>, <<"clear", m>>}

\* the dispatch thread's next statement reads or writes m's currentState_
DispatchAccesses(m) ==
    /\ proc = "ok"
    /\ \/ dpc = "dispatch" /\ m = Root(cfg) /\ ~IsOrtho(m)
       \/ dpc \in {"execute", "setCurrent", "stopCheck"} /\ dM = m /\ ~IsOrtho(m)
       \/ dpc = "onExit" /\ dOps # << >> /\ Head(dOps) = <<"clear", m>>

\* C9: thread confinement. No state has the application thread about to write
\* a machine's currentState while the dispatch thread is about to read or
\* write the same currentState.
C9_ThreadConfinement ==
    \A m \in Machines(cfg) : ~(MainWrites(m) /\ DispatchAccesses(m))

IsPrefix(a, b) == Len(a) <= Len(b) /\ SubSeq(b, 1, Len(a)) = a

\* the machine has been shut down: onExit set the root's interrupt flag
ShutDown == interrupt_[Root(cfg)]

\* the dispatch thread will not execute another event
DispatchOver == proc # "ok" \/ dpc \in {"done", "hung"}

\* C10: FIFO dispatch. For events pushed onto a running root, the events
\* handed to execute are a prefix of the pushed ones, and the dispatch thread
\* stops executing events only when the machine has been shut down or every
\* pushed event has been executed.
C10_FifoDispatch ==
    ProperUse =>
        /\ IsPrefix(executed, pushed)
        /\ (DispatchOver => (ShutDown \/ executed = pushed))

\* the other child of the orthogonal machine that composes child m
sibling(m) == IF m = "H1" THEN "H2" ELSE "H1"

\* the events only child m of the orthogonal machine recognizes
onlyEvents(c, m) == getEvents(c, m) \ getEvents(c, sibling(m))

\* C11: orthogonal routing end to end. In a root OrthogonalHSM whose children
\* recognize disjoint event sets, a child's execute is never entered with an
\* event that only the other child recognizes, and a transition for an event
\* is only ever performed by the child that recognizes it.
C11_OrthogonalRouting ==
    (cfg = "ortho" /\ ProperUse /\ exitCalls = 0 /\ dM \in {"H1", "H2"}) =>
        /\ dpc = "execute" => dEv \notin onlyEvents(cfg, sibling(dM))
        /\ dpc \in {"guard", "doTransition", "setCurrent", "stopCheck"} =>
               dEv \in onlyEvents(cfg, dM)

\* the dispatch thread takes the step that runs OrthogonalHSM::execute with
\* stack left for the call it makes
OrthoExecuteStep ==
    /\ dpc = "execute"
    /\ IsOrtho(dM)
    /\ proc = "ok"
    /\ calls < StackLimit
    /\ (dM' # dM \/ dpc' # dpc)

rank(order, m) == CHOOSE i \in 1..Len(order) : order[i] = m

\* the statements still to run on the application thread belong to the
\* machines in the sequence order, in that order
InOrder(ops, order) ==
    \A i, j \in 1..Len(ops) :
        i < j => rank(order, ops[i][2]) <= rank(order, ops[j][2])

\* C13: entry/exit ordering of OrthogonalHSM. onEntry runs hsm1.onEntry,
\* hsm2.onEntry, then the base machine's onEntry; onExit runs the same three
\* steps in the reverse order: base machine's onExit, then hsm2.onExit, then
\* hsm1.onExit, so no child has been exited while the base machine has not.
C13_EntryExitOrder ==
    IsOrtho(Root(cfg)) =>
        /\ mpc = "onEntry" => InOrder(mOps, <<"H1", "H2", "O">>)
        /\ mpc = "onExit" =>
               /\ InOrder(mOps, <<"O", "H2", "H1">>)
               /\ interrupt_["H1"] => interrupt_["H2"]
               /\ (exitCalls = 1 /\ interrupt_["H2"]) => interrupt_["O"]

\* what the application thread does run: the children first on exit as well
C13_ExitSameAsEntry ==
    (IsOrtho(Root(cfg)) /\ mpc \in {"onEntry", "onExit"}) =>
        InOrder(mOps, <<"H1", "H2", "O">>)

\* execute is running for an event that no machine of the hierarchy has a
\* transition for from its current state
UnhandledInFlight ==
    /\ ProperUse
    /\ exitCalls = 0
    /\ proc = "ok"
    /\ dpc = "execute"
    /\ \A m \in Machines(cfg) :
           next(table_(cfg, m), currentState_[m], dEv) = nullptr

\* C14: an unhandled event at the root is not fatal. While an event with no
\* matching transition anywhere in the hierarchy is being handled, every step
\* leaves every currentState, the hook/guard/action history and the interrupt
\* flags unchanged, the call chain stays within the depth of the hierarchy,
\* nothing fails, and execute returns to the dispatch loop.
C14_UnhandledNonFatal ==
    [][(UnhandledInFlight /\ exitCalls' = 0 /\ ProperUse') =>
           /\ currentState_' = currentState_
           /\ hooks' = hooks
           /\ interrupt_' = interrupt_
           /\ proc' = "ok"
           /\ dpc' \in {"execute", "loop"}
           /\ calls' <= Cardinality(Machines(cfg))
      ]_vars

\* the same property with the orthogonal configurations left out
C14_UnhandledNonFatal_NoOrtho ==
    [][(UnhandledInFlight /\ exitCalls' = 0 /\ ProperUse'
           /\ ~IsOrtho(Root(cfg))) =>
           /\ currentState_' = currentState_
           /\ hooks' = hooks
           /\ interrupt_' = interrupt_
           /\ proc' = "ok"
           /\ dpc' \in {"execute", "loop"}
           /\ calls' <= Cardinality(Machines(cfg))
      ]_vars

\* the dispatch thread leaves the catch block of step
LeavesCatch == dpc = "catch" /\ proc = "ok" /\ (dpc' # dpc \/ proc' # proc)

\* C15: queue interruption in the dispatch loop. When nextEvent has failed
\* with Interrupted and the root's interrupt flag is set, the loop swallows the
\* failure and the thread function returns normally; when the flag is still
\* false the failure leaves the loop (and, uncaught, the thread function)
\* instead of being swallowed. The catch block is entered only once the queue
\* has been stopped.
C15_InterruptedHandling ==
    [][/\ LeavesCatch =>
            IF interrupt_[Root(cfg)]
            THEN dpc' = "done" /\ proc' = "ok"
            ELSE dpc' # "done" /\ proc' = "terminate"
       /\ dpc' = "catch" => qStopped'
      ]_vars

\* the queue was stopped without onExit and the failure has left the loop
C15_Witness ==
    /\ dpc = "catch"
    /\ proc = "terminate"
    /\ extStopped
    /\ ~interrupt_[Root(cfg)]
    /\ exitCalls = 0

\* P.execute is running because the active child S had no transition for
\* the event and delegated it
BubbledToParent ==
    /\ ProperUse
    /\ exitCalls = 0
    /\ proc = "ok"
    /\ dM = "P"
    /\ calls = 2
    /\ dpc \in {"execute", "guard", "doTransition", "setCurrent", "stopCheck"}

\* C16: bubble-up to the parent, the child stays active. When S has no
\* transition for the event and P has one from S (S -e3-> A with guard and
\* action), P performs it as configured: guard, S.onExit, action, A.onEntry,
\* then P.currentState = A. S is not exited and S.currentState is unchanged
\* through P's lookup and guard, and after a rejecting guard S is still the
\* active state of P, in the same state, with nothing but the guard run.
C16_BubbleUp ==
    BubbledToParent =>
        /\ \A t \in table_(cfg, "S") : ~(t.from = "S1" /\ t.ev = dEv)
        /\ dpc \in {"execute", "guard", "doTransition"} =>
               currentState_["P"] = "S" /\ currentState_["S"] = "S1"
        /\ dpc \in {"guard", "doTransition", "setCurrent", "stopCheck"} =>
               /\ dT = T("S", "e3", "A", TRUE, TRUE)
               /\ dEv = "e3"
               /\ dPre.cur = "S"
        /\ dpc = "guard" => hooks = SubSeq(hooks, 1, dPre.n)
        /\ dpc = "doTransition" =>
               /\ dGuard = "true"
               /\ hooks = SubSeq(hooks, 1, dPre.n) \o << <<"guard", "P">> >>
        /\ dpc = "setCurrent" =>
               /\ dGuard = "true"
               /\ currentState_["P"] = "S"
               /\ hooks = SubSeq(hooks, 1, dPre.n)
                            \o << <<"guard", "P">>, <<"onExit", "S">>,
                                  <<"action", "P">>, <<"onEntry", "A">> >>
        /\ dpc = "stopCheck" =>
               IF dGuard = "false"
               THEN /\ currentState_["P"] = "S"
                    /\ currentState_["S"] = "S1"
                    /\ hooks = SubSeq(hooks, 1, dPre.n) \o << <<"guard", "P">> >>
               ELSE /\ dGuard = "true"
                    /\ currentState_["P"] = "A"
                    /\ hooks = SubSeq(hooks, 1, dPre.n)
                                 \o << <<"guard", "P">>, <<"onExit", "S">>,
                                       <<"action", "P">>, <<"onEntry", "A">> >>

\* P has performed the transition for an event its child S delegated
C16_Witness ==
    /\ BubbledToParent
    /\ dpc = "stopCheck"
    /\ dGuard = "true"
    /\ dEv = "e3"
    /\ currentState_["P"] = "A"

\* C17: root start ordering. The root's currentState is set to startState
\* before the dispatch loop can dequeue and execute any event: whenever the
\* dispatch thread runs dispatch or execute on a started root that nobody has
\* exited or stopped, also for an event that was already queued when onEntry
\* was called, the root's currentState is not None.
C17_RootStartOrdering ==
    (/\ dpc \in {"dispatch", "execute"}
     /\ proc = "ok"
     /\ exitCalls = 0
     /\ ~extStopped
     /\ ~interrupt_[Root(cfg)]) =>
        currentState_[Root(cfg)] # None

\* the same property once onEntry has returned
C17_AfterOnEntryReturned ==
    (/\ dpc \in {"dispatch", "execute"}
     /\ proc = "ok"
     /\ exitCalls = 0
     /\ ~extStopped
     /\ ~interrupt_[Root(cfg)]
     /\ mpc = "running") =>
        currentState_[Root(cfg)] # None

\* the machine built by add(A, e1, B) followed by add(A, e1, C, action, guard)
\* is handling e1 in state A
DuplicateKeyDispatched ==
    /\ cfg = "dupAdd"
    /\ ProperUse
    /\ exitCalls = 0
    /\ proc = "ok"
    /\ dEv = "e1"
    /\ dPre.cur = "A"
    /\ dpc \in {"guard", "doTransition", "setCurrent", "stopCheck"}

\* C18: duplicate add overwrites. After add(from, e, to1) followed by
\* add(from, e, to2, action, guard) the table holds exactly one entry for
\* (from, e) and it is the second one: dispatching e in state from runs the
\* second call's guard and action and moves the machine to to2.
C18_DuplicateAddOverwrites ==
    /\ cfg = "dupAdd" =>
           Cardinality({t \in table_(cfg, "M") : t.from = "A" /\ t.ev = "e1"}) = 1
    /\ DuplicateKeyDispatched =>
           /\ dT = T("A", "e1", "C", TRUE, TRUE)
           /\ (dpc = "stopCheck" /\ dGuard # "false") => currentState_["M"] = "C"

\* C18 as the code has it: the table holds exactly one entry for (from, e)
\* and it is the first one. Dispatching e in state from moves the machine to
\* to1 with the first call's (absent) guard and action; of the second call
\* only the event is recorded.
C18_DuplicateAddKeepsFirst ==
    /\ cfg = "dupAdd" =>
           /\ Cardinality({t \in table_(cfg, "M") :
                               t.from = "A" /\ t.ev = "e1"}) = 1
           /\ "e1" \in getEvents(cfg, "M")
    /\ DuplicateKeyDispatched =>
           /\ dT = T("A", "e1", "B", FALSE, FALSE)
           /\ dpc # "guard" => dGuard = "absent"
           /\ dpc = "stopCheck" =>
                  /\ currentState_["M"] = "B"
                  /\ hooks = SubSeq(hooks, 1, dPre.n)
                               \o << <<"onExit", "A">>, <<"onEntry", "B">> >>

\* e1 has been dispatched in state A of the machine with the duplicate add
C18_Witness ==
    /\ DuplicateKeyDispatched
    /\ dpc = "stopCheck"
    /\ currentState_["M"] = "B"

\* execute has matched an external transition for the event
MatchedExternal ==
    /\ ProperUse
    /\ exitCalls = 0
    /\ proc = "ok"
    /\ dpc \in {"guard", "doTransition", "setCurrent", "stopCheck", "onExit"}
    /\ dT.from # dT.to

\* the history of hooks, guards and actions when execute made its lookup
hooksBefore == SubSeq(hooks, 1, dPre.n)

\* the single evaluation of the matched transition's guard, if it has one
guardOnce == IF dT.guard THEN << <<"guard", dM>> >> ELSE << >>

\* from.onExit, then the action if there is one, then to.onEntry
exitActionEntry ==
    << <<"onExit", dT.from>> >>
        \o (IF dT.action THEN << <<"action", dM>> >> ELSE << >>)
        \o << <<"onEntry", dT.to>> >>

\* the order of the steps up to and including the update of currentState
OrderUpToUpdate ==
    /\ dpc = "guard" => hooks = hooksBefore /\ currentState_[dM] = dPre.cur
    /\ dpc = "doTransition" =>
           /\ dGuard = (IF dT.guard THEN "true" ELSE "absent")
           /\ hooks = hooksBefore \o guardOnce
           /\ currentState_[dM] = dPre.cur
    /\ dpc = "setCurrent" =>
           /\ dGuard = (IF dT.guard THEN "true" ELSE "absent")
           /\ hooks = hooksBefore \o guardOnce \o exitActionEntry
           /\ currentState_[dM] = dPre.cur
    /\ (dpc = "stopCheck" /\ dGuard # "false") =>
           /\ hooks = hooksBefore \o guardOnce \o exitActionEntry
           /\ currentState_[dM] = dT.to
    /\ (dpc = "stopCheck" /\ dGuard = "false") =>
           /\ hooks = hooksBefore \o guardOnce
           /\ currentState_[dM] = dPre.cur

\* C19: step ordering of a matched external transition inside execute. The
\* guard is evaluated first and exactly once; only if it is absent or true do
\* from.onExit, the action and to.onEntry run, in that order; currentState
\* still equals the source state while they run and becomes the target only
\* afterwards; and the stopState check invokes the machine's onExit only
\* after that update of currentState.
C19_StepOrdering ==
    MatchedExternal =>
        /\ OrderUpToUpdate
        /\ dpc = "onExit" =>
               /\ dGuard \in {"true", "absent"}
               /\ dT.to = getStopState(cfg, dM)
               /\ IsPrefix(hooksBefore \o guardOnce \o exitActionEntry
                               \o << <<"onExit", dM>> >>, hooks)

\* the ordering of the steps before the stopState check
C19_OrderUpToUpdate == MatchedExternal => OrderUpToUpdate

\* a child of the running orthogonal root has reached its stopState and run
\* its onExit, and the dispatch thread is handling an event that the other
\* child recognizes
ChildTerminated(m) ==
    /\ IsOrtho(Root(cfg))
    /\ ProperUse
    /\ exitCalls = 0
    /\ interrupt_[m]
    /\ ~interrupt_[sibling(m)]
    /\ dpc \in {"dispatch", "execute", "guard", "doTransition", "setCurrent",
                 "stopCheck"}
    /\ dEv \in getEvents(cfg, sibling(m))

\* C20: independence of orthogonal regions on child termination. When one
\* child of a running root OrthogonalHSM has reached its stopState and run its
\* onExit, the root's queue and dispatch loop are not stopped, and an event
\* recognized by the other child is handled without the dispatch thread
\* reading a None currentState.
C20_OrthogonalIndependence ==
    \A m \in {"H1", "H2"} :
        ChildTerminated(m) =>
            /\ ~qStopped
            /\ ~interrupt_["O"]
            /\ proc # "segv"

\* the same property for a terminated hsm2 only
C20_Hsm2Terminated ==
    ChildTerminated("H2") =>
        /\ ~qStopped
        /\ ~interrupt_["O"]
        /\ proc # "segv"

====
